---- MODULE Spec2Model ----
(***************************************************************************)
(* Model of src/fetch/__init__.py: the meet table row-stream parser        *)
(* (fetch_meet_results), the time parser (time_to_float) and the swimmer   *)
(* profile parser (fetch_swimmer).                                         *)
(*                                                                         *)
(* Python strings are modelled as sequences of one-character strings, so   *)
(* that substring tests, lower(), split() and slicing are computed.        *)
(* Python index i of a list is index i+1 here.                             *)
(***************************************************************************)
EXTENDS Integers, Sequences, FiniteSets, TLC

VARIABLES results, events, current_parse, mpc, mexc,
          time, tresult, tpc,
          page, swim, current_event, idx, spc, sexc, caught

meetVars == <<results, events, current_parse, mpc, mexc>>
timeVars == <<time, tresult, tpc>>
swimVars == <<page, swim, current_event, idx, spc, sexc, caught>>
vars == <<results, events, current_parse, mpc, mexc,
          time, tresult, tpc,
          page, swim, current_event, idx, spc, sexc, caught>>

\* ---------------------------------------------------------------- bounds
MaxRows == 4
MaxTimeLen == 4
MaxPerfRows == 2

\* ------------------------------------------------------- string helpers
UpperLetters == <<"A","B","C","D","E","F","G","H","I","J","K","L","M",
                  "N","O","P","Q","R","S","T","U","V","W","X","Y","Z">>
LowerLetters == <<"a","b","c","d","e","f","g","h","i","j","k","l","m",
                  "n","o","p","q","r","s","t","u","v","w","x","y","z">>

LowerChar(c) ==
    IF \E i \in 1..26 : UpperLetters[i] = c
    THEN LowerLetters[CHOOSE i \in 1..26 : UpperLetters[i] = c]
    ELSE c

\* str.lower()
Lower(s) == [i \in 1..Len(s) |-> LowerChar(s[i])]

\* `sub in s` for strings
Contains(sub, s) ==
    \E i \in 0..(Len(s) - Len(sub)) :
        \A j \in 1..Len(sub) : s[i + j] = sub[j]

\* s[a:b] with Python's clamping of slice bounds (0 <= a, 0 <= b)
Slice(s, a, b) ==
    LET hi == IF b < Len(s) THEN b ELSE Len(s)
    IN  IF a >= hi THEN <<>> ELSE [i \in 1..(hi - a) |-> s[a + i]]

\* ------------------------------------------------------------ cell texts
sEmpty == <<>>
sSpace == <<" ">>
sA == <<"A">>
sB == <<"B">>
sT1 == <<"5","8",".","2","1">>
sT2 == <<"1",":","0","1",".","3","0">>
sEX == <<"E","X">>
sX == <<"x">>
s100Free == <<"1","0","0"," ","F","r","e","e">>
sExhibition == <<"E","x","h","i","b","i","t","i","o","n">>
sBoysExhibition == <<"5","0"," ">> \o sExhibition
sLowerExhibition == Lower(sExhibition)
sEx == <<"e","x">>

\* ------------------------------------------------ fetch_meet_results
\* The rows placed in `results` by the cell-text extraction loop.
RowSet ==
    { <<>>,
      <<s100Free>>,
      <<sExhibition>>,
      <<sLowerExhibition>>,
      <<sT1, sA, sEmpty, sSpace, sEmpty, sEmpty, sB, sT2, sEmpty>>,
      <<sEmpty, sEmpty, sEmpty, sEmpty, sEmpty, sEmpty, sEmpty, sEmpty>>,
      <<sEmpty, sA, sEmpty, sEmpty, sEmpty, sEmpty, sB, sEmpty>>,
      <<sT2, sB, sEX, sEmpty, sEmpty, sX, sA, sT1>>,
      <<sEmpty, sEmpty, sEmpty, sEmpty, sEmpty, sLowerExhibition, sB, sT1>>,
      <<sT1, sA, sEmpty, sEmpty, sEmpty, sEmpty, sEmpty, sEmpty>>,
      <<sBoysExhibition, sEmpty, sEmpty, sEmpty, sEmpty, sEmpty, sEmpty, sEmpty>>,
      <<sT1, sA>>,
      <<sT1, sA, sEX>>,
      <<sEmpty, sA>> }

InitialParse == "event"

\* row[i] of the Python list (0-based); only used where i < Len(row)
Cell(row, i) == row[i + 1]

HasMarker(row) == Contains(sExhibition, Cell(row, 0))

ExhibFlag(cell) == Contains(sEx, Lower(cell))

NewEvent(row) == [name |-> Cell(row, 0), home |-> <<>>, away |-> <<>>]

StartEventReplacing(evs, row) == <<NewEvent(row)>>

StartEventDropped(evs, row) == evs

StartEvent(evs, row) == Append(evs, NewEvent(row))

\* [row[1], row[0], "ex" in row[2].lower()]
HomeEntry(row) == <<Cell(row, 1), Cell(row, 0), ExhibFlag(Cell(row, 2))>>

\* [row[7], row[6], "ex" in row[5].lower()]
AwayEntry(row) == <<Cell(row, 7), Cell(row, 6), ExhibFlag(Cell(row, 5))>>

IsSentinelWrongCol(row) == Cell(row, 1) = sEmpty /\ Cell(row, 7) = sEmpty

IsSentinel(row) == Cell(row, 0) = sEmpty /\ Cell(row, 7) = sEmpty

AppendHome(evs, row) ==
    [evs EXCEPT ![Len(evs)].home = Append(@, HomeEntry(row))]

AppendAwayDropped(evs, row) == evs

AppendAway(evs, row) ==
    [evs EXCEPT ![Len(evs)].away = Append(@, AwayEntry(row))]

\* Which arm of the if/elif chain a non-empty row takes.
BranchSingleFirst(row, st) ==
    IF Len(row) = 1 THEN "single"
    ELSE IF HasMarker(row) THEN "marker"
    ELSE st

BranchExhibForgotten(row, st) ==
    IF HasMarker(row) THEN "marker"
    ELSE IF Len(row) = 1 THEN "single"
    ELSE IF st = "exhib" THEN "event"
    ELSE st

Branch(row, st) ==
    IF HasMarker(row) THEN "marker"
    ELSE IF Len(row) = 1 THEN "single"
    ELSE st

Outcome(evs, st, exc) == [events |-> evs, current_parse |-> st, exc |-> exc]

\* The `times` arm, with the index faults of rows shorter than 8 cells.
TimesArm(evs, row) ==
    IF Cell(row, 0) = sEmpty /\ Len(row) < 8
    THEN Outcome(evs, "times", "IndexError")
    ELSE IF Len(row) >= 8 /\ IsSentinel(row)
    THEN Outcome(evs, "event", "none")
    ELSE IF Len(row) < 3
    THEN Outcome(evs, "times", "IndexError")
    ELSE IF Len(row) < 8
    THEN Outcome(AppendHome(evs, row), "times", "IndexError")
    ELSE Outcome(AppendAway(AppendHome(evs, row), row), "times", "none")

\* One iteration of the row loop.
RowStep(evs, st, row) ==
    IF Len(row) = 0 THEN Outcome(evs, st, "IndexError")
    ELSE LET b == Branch(row, st) IN
         CASE b = "marker" -> Outcome(evs, "exhib", "none")
           [] b = "single" -> Outcome(StartEvent(evs, row), "times", "none")
           [] b = "event"  -> Outcome(StartEvent(evs, row), "times", "none")
           [] b = "times"  -> TimesArm(evs, row)
           [] b = "exhib"  ->
                IF Len(row) = 1
                THEN Outcome(StartEvent(evs, row), "times", "none")
                ELSE Outcome(evs, "exhib", "none")

MeetInit ==
    /\ results = <<>>
    /\ events = <<>>
    /\ current_parse = InitialParse
    /\ mpc = "loop"
    /\ mexc = "none"

ConsumeRow ==
    /\ mpc = "loop"
    /\ Len(results) < MaxRows
    /\ \E row \in RowSet :
         LET o == RowStep(events, current_parse, row) IN
           /\ results' = Append(results, row)
           /\ events' = o.events
           /\ current_parse' = o.current_parse
           /\ mexc' = o.exc
           /\ mpc' = IF o.exc = "none" THEN "loop" ELSE "raised"
    /\ UNCHANGED <<timeVars, swimVars>>

ReturnEvents ==
    /\ mpc = "loop"
    /\ mpc' = "returned"
    /\ UNCHANGED <<results, events, current_parse, mexc, timeVars, swimVars>>

NextMeet == ConsumeRow \/ ReturnEvents

\* ------------------------------------------------------- time_to_float
\* The argument is None or a string.
PyNone == [none |-> TRUE, s |-> <<>>]
Str(s) == [none |-> FALSE, s |-> s]

\* Characters of the modelled time strings.  Signs, exponents, underscores
\* and the letters of "inf"/"nan" are not among them, so on these strings
\* float() accepts exactly: optional blanks, digits with at most one point
\* and at least one digit; int() accepts optional blanks and digits.
TimeChars == {"1", "5", ".", ":", "d", "Q", " "}

TimeStrings == UNION {[1..n -> TimeChars] : n \in 0..MaxTimeLen}

TimeInputs == {PyNone} \cup {Str(s) : s \in TimeStrings}

Digits == <<"0","1","2","3","4","5","6","7","8","9">>
IsDigit(c) == \E i \in 1..10 : Digits[i] = c
DigitVal(c) == (CHOOSE i \in 1..10 : Digits[i] = c) - 1

\* str.strip() for blanks
Strip(s) ==
    IF \A i \in 1..Len(s) : s[i] = " " THEN <<>>
    ELSE LET lo == CHOOSE i \in 1..Len(s) :
                     s[i] # " " /\ \A j \in 1..(i - 1) : s[j] = " "
             hi == CHOOSE i \in 1..Len(s) :
                     s[i] # " " /\ \A j \in (i + 1)..Len(s) : s[j] = " "
         IN  SubSeq(s, lo, hi)

RECURSIVE DigitsVal(_)
DigitsVal(s) ==
    IF Len(s) = 0 THEN 0
    ELSE 10 * DigitsVal(SubSeq(s, 1, Len(s) - 1)) + DigitVal(s[Len(s)])

RECURSIVE Pow10(_)
Pow10(n) == IF n = 0 THEN 1 ELSE 10 * Pow10(n - 1)

\* int(s) succeeds
IsInt(s) ==
    LET t == Strip(s) IN Len(t) > 0 /\ \A i \in 1..Len(t) : IsDigit(t[i])

IntVal(s) == DigitsVal(Strip(s))

\* float(s) succeeds
IsFloat(s) ==
    LET t == Strip(s) IN
      /\ \A i \in 1..Len(t) : IsDigit(t[i]) \/ t[i] = "."
      /\ \E i \in 1..Len(t) : IsDigit(t[i])
      /\ Cardinality({i \in 1..Len(t) : t[i] = "."}) <= 1

\* float(s) as the exact decimal num/den
FloatNum(s) ==
    LET t == Strip(s) IN DigitsVal(SelectSeq(t, IsDigit))

FloatDen(s) ==
    LET t == Strip(s) IN
      IF \E i \in 1..Len(t) : t[i] = "."
      THEN Pow10(Len(t) - (CHOOSE i \in 1..Len(t) : t[i] = "."))
      ELSE 1

\* s.split(":"): every colon separates two fields
RECURSIVE Split(_)
Split(s) ==
    IF \E i \in 1..Len(s) : s[i] = ":"
    THEN LET k == CHOOSE i \in 1..Len(s) :
                    s[i] = ":" /\ \A j \in 1..(i - 1) : s[j] # ":"
         IN  <<SubSeq(s, 1, k - 1)>> \o Split(SubSeq(s, k + 1, Len(s)))
    ELSE <<s>>

Returned(num, den) == [kind |-> "float", num |-> num, den |-> den]
ReturnedNone == [kind |-> "None", num |-> 0, den |-> 1]
Raised(exc) == [kind |-> exc, num |-> 0, den |-> 1]

HasDq(s) == Contains(<<"d", "q">>, Lower(s))

\* int(time.split(":")[0]) * 60 + float(time.split(":")[1])
MinutesSeconds(s) ==
    LET parts == Split(s) IN
      IF ~IsInt(parts[1]) THEN Raised("ValueError")
      ELSE IF Len(parts) < 2 THEN Raised("IndexError")
      ELSE IF ~IsFloat(parts[2]) THEN Raised("ValueError")
      ELSE Returned(IntVal(parts[1]) * 60 * FloatDen(parts[2])
                      + FloatNum(parts[2]),
                    FloatDen(parts[2]))

time_to_float(t) ==
    IF t.none THEN Raised("TypeError")
    ELSE IF IsFloat(t.s) THEN Returned(FloatNum(t.s), FloatDen(t.s))
    ELSE IF HasDq(t.s) THEN ReturnedNone
    ELSE MinutesSeconds(t.s)

TimeInit ==
    /\ time = Str(<<>>)
    /\ tresult = ReturnedNone
    /\ tpc = "idle"

CallTimeToFloat ==
    /\ tpc = "idle"
    /\ \E t \in TimeInputs :
         /\ time' = t
         /\ tresult' = time_to_float(t)
    /\ tpc' = "done"
    /\ UNCHANGED <<meetVars, swimVars>>

NextTime == CallTimeToFloat

\* ------------------------------------------------------- fetch_swimmer
\* Years of graduation to year name
graduation ==
    [y \in 2020..2025 |->
        CASE y = 2020 -> "SR" [] y = 2021 -> "JR" [] y = 2022 -> "SO"
          [] y = 2023 -> "FR" [] y = 2024 -> "'8" [] y = 2025 -> "'7"]

IsLeap(y) == (y % 4 = 0 /\ y % 100 # 0) \/ y % 400 = 0

DaysIn(m, y) ==
    IF m = 2 THEN (IF IsLeap(y) THEN 29 ELSE 28)
    ELSE IF m \in {4, 6, 9, 11} THEN 30 ELSE 31

\* datetime.strptime(s, "%m/%d/%Y") on a text of at most 10 characters:
\* the year takes four digits and each separator one character, so the
\* month is two digits and the day two digits or a blank and a digit.
StrpTimeOk(s) ==
    /\ Len(s) = 10
    /\ s[3] = "/" /\ s[6] = "/"
    /\ IsDigit(s[1]) /\ IsDigit(s[2])
    /\ (IsDigit(s[4]) \/ s[4] = " ") /\ IsDigit(s[5])
    /\ \A i \in 7..10 : IsDigit(s[i])
    /\ LET m == DigitsVal(SubSeq(s, 1, 2))
           d == DigitsVal(SelectSeq(SubSeq(s, 4, 5), IsDigit))
           y == DigitsVal(SubSeq(s, 7, 10))
       IN  /\ m \in 1..12
           /\ y >= 1
           /\ d \in 1..DaysIn(m, y)

StrpTime(s) ==
    <<DigitsVal(SubSeq(s, 7, 10)), DigitsVal(SubSeq(s, 1, 2)),
      DigitsVal(SelectSeq(SubSeq(s, 4, 5), IsDigit))>>

dGood == <<"0","1","/","1","5","/","2","0","2","0">>
dBlankDay == <<"1","1","/"," ","5","/","2","0","2","1">>
dBadMonth == <<"1","3","/","0","1","/","2","0","2","0">>
dBadDay == <<"0","2","/","3","0","/","2","0","2","0">>
sGap == <<" "," "," ">>
s50Free == <<"5","0"," ","F","r","e","e">>

PerfTexts ==
    { dGood \o sGap \o <<"1","5",".","5">>,
      dBlankDay \o sGap \o <<"1",":","5",".","1">>,
      dGood \o sGap \o <<"d","Q">>,
      dGood \o sGap \o <<"1",":","5",":">>,
      dGood \o sGap \o <<"d">>,
      dGood \o sGap,
      dBadMonth \o sGap \o <<"1","5",".","5">>,
      dBadDay \o sGap \o <<"1","5",".","5">>,
      <<"0","1","/","1","5">> }

PerfRowSet ==
    {[bold |-> TRUE, text |-> s50Free]}
      \cup {[bold |-> FALSE, text |-> t] : t \in PerfTexts}

PerfTables == UNION {[1..n -> PerfRowSet] : n \in 0..MaxPerfRows}

YearTexts == {<<"2","0","2","3">>, <<"2","0","2","0">>,
              <<"1","9","9","9">>, <<"F","R">>}

\* What the markup queries of fetch_swimmer see of a profile page: the
\* number of tables, the number of cells of the first table, the text of
\* its tenth cell and the rows of the third table.
Pages ==
    {[nTables |-> 0, nInfoTd |-> 0, year |-> <<>>, perf |-> <<>>]}
      \cup {[nTables |-> n, nInfoTd |-> c, year |-> y, perf |-> <<>>] :
              n \in 1..2, c \in {3, 10}, y \in YearTexts}
      \cup {[nTables |-> 3, nInfoTd |-> c, year |-> y, perf |-> t] :
              c \in {3, 10}, y \in YearTexts, t \in PerfTables}

\* The exception that lines 130-140 raise on a page, or "none".
HeaderFault(p) ==
    IF p.nTables < 1 THEN "IndexError"
    ELSE IF p.nInfoTd < 10 THEN "IndexError"
    ELSE IF ~IsInt(p.year) THEN "ValueError"
    ELSE IF IntVal(p.year) \notin DOMAIN graduation THEN "KeyError"
    ELSE "none"

\* The exception that building Swimmer.Time from a row raises, or "none".
RowFault(row) ==
    IF ~StrpTimeOk(Slice(row.text, 0, 10)) THEN "ValueError"
    ELSE LET r == time_to_float(Str(Slice(row.text, 13, Len(row.text)))) IN
         IF r.kind \in {"float", "None"} THEN "none" ELSE r.kind

ToleratedBroad(exc) == exc \in {"IndexError", "ValueError"}

\* except IndexError: pass
Tolerated(exc) == exc = "IndexError"

SwimInit ==
    /\ page = [nTables |-> 0, nInfoTd |-> 0, year |-> <<>>, perf |-> <<>>]
    /\ swim = [year |-> "", times |-> <<>>]
    /\ current_event = <<>>
    /\ idx = 0
    /\ spc = "start"
    /\ sexc = "none"
    /\ caught = FALSE

\* requests.get / BeautifulSoup, then lines 130-140
FetchProfile ==
    /\ spc = "start"
    /\ \E p \in Pages :
         /\ page' = p
         /\ IF HeaderFault(p) = "none"
            THEN /\ swim' = [year |-> graduation[IntVal(p.year)],
                             times |-> <<>>]
                 /\ spc' = "try"
                 /\ sexc' = "none"
            ELSE /\ swim' = swim
                 /\ spc' = "raised"
                 /\ sexc' = HeaderFault(p)
    /\ UNCHANGED <<current_event, idx, caught, meetVars, timeVars>>

\* An exception raised inside the try block
RaiseInTry(exc) ==
    IF Tolerated(exc)
    THEN spc' = "returned" /\ caught' = TRUE /\ sexc' = "none"
    ELSE spc' = "raised" /\ caught' = FALSE /\ sexc' = exc

\* times = soup.select("table")[2].select("tr"); current_event = times[0].text
EnterTry ==
    /\ spc = "try"
    /\ IF page.nTables < 3 \/ Len(page.perf) = 0
       THEN RaiseInTry("IndexError") /\ current_event' = current_event
       ELSE /\ current_event' = page.perf[1].text
            /\ spc' = "rows"
            /\ UNCHANGED <<caught, sexc>>
    /\ UNCHANGED <<page, swim, idx, meetVars, timeVars>>

\* One iteration of `for i in times`
PerfRow ==
    /\ spc = "rows"
    /\ idx < Len(page.perf)
    /\ LET row == page.perf[idx + 1] IN
         IF row.bold
         THEN /\ current_event' = row.text
              /\ idx' = idx + 1
              /\ UNCHANGED <<swim, spc, sexc, caught>>
         ELSE IF RowFault(row) # "none"
         THEN /\ RaiseInTry(RowFault(row))
              /\ UNCHANGED <<swim, current_event, idx>>
         ELSE /\ swim' = [swim EXCEPT !.times = Append(@,
                    [event |-> current_event,
                     date |-> StrpTime(Slice(row.text, 0, 10)),
                     seconds |-> time_to_float(
                         Str(Slice(row.text, 13, Len(row.text))))])]
              /\ idx' = idx + 1
              /\ UNCHANGED <<current_event, spc, sexc, caught>>
    /\ UNCHANGED <<page, meetVars, timeVars>>

ReturnSwimmer ==
    /\ spc = "rows"
    /\ idx = Len(page.perf)
    /\ spc' = "returned"
    /\ UNCHANGED <<page, swim, current_event, idx, sexc, caught,
                   meetVars, timeVars>>

NextSwim == FetchProfile \/ EnterTry \/ PerfRow \/ ReturnSwimmer

\* ------------------------------------------------------ specifications
Init == MeetInit /\ TimeInit /\ SwimInit

SpecMeet == Init /\ [][NextMeet]_vars
SpecTime == Init /\ [][NextTime]_vars
SpecSwim == Init /\ [][NextSwim]_vars

\* ---------------------------------------------------------- properties
\* The row consumed by the latest iteration of the row loop.
LastRow == results[Len(results)]

\* A step of the row loop that consumes one more row.
RowConsumed == mpc = "loop" /\ Len(results') = Len(results) + 1

\* Positions of the documented entry layout [TIME, SWIMMER NAME, exhib].
TIME == 1
NAME == 2
EXHIB == 3

LastEvent(evs) == evs[Len(evs)]
LastEntry(entries) == entries[Len(entries)]

NumSingle(rs) == Cardinality({i \in 1..Len(rs) : Len(rs[i]) = 1})

ExampleDataRow == <<sT1, sA, sEmpty, sSpace, sEmpty, sEmpty, sB, sT2, sEmpty>>

\* C1: a non-sentinel row of at least 8 cells consumed in the `times` state
\* appends to the current event a home entry with time = cell[0],
\* name = cell[1], flag from cell[2] and an away entry with time = cell[7],
\* name = cell[6], flag from cell[5], both read in the documented layout
\* [TIME, SWIMMER NAME, exhib].
C1_DocumentedLayout ==
    [][(/\ RowConsumed
        /\ current_parse = "times"
        /\ Len(LastRow') >= 8
        /\ ~HasMarker(LastRow')
        /\ ~(Cell(LastRow', 0) = sEmpty /\ Cell(LastRow', 7) = sEmpty))
       => (/\ mexc' = "none"
           /\ Len(events') = Len(events)
           /\ Len(LastEvent(events').home) = Len(LastEvent(events).home) + 1
           /\ Len(LastEvent(events').away) = Len(LastEvent(events).away) + 1
           /\ LET h == LastEntry(LastEvent(events').home)
                  a == LastEntry(LastEvent(events').away)
                  r == LastRow'
              IN  /\ h[TIME] = Cell(r, 0)
                  /\ h[NAME] = Cell(r, 1)
                  /\ h[EXHIB] = Contains(sEx, Lower(Cell(r, 2)))
                  /\ a[TIME] = Cell(r, 7)
                  /\ a[NAME] = Cell(r, 6)
                  /\ a[EXHIB] = Contains(sEx, Lower(Cell(r, 5))))]_vars

\* C2: a row whose first cell contains "Exhibition" sets the state to
\* `exhib` whatever the prior state and the cell count, and appends no
\* event and no time entry.
C2_MarkerWins ==
    [][(RowConsumed /\ Len(LastRow') >= 1
          /\ Contains(sExhibition, LastRow'[1]))
       => (current_parse' = "exhib" /\ events' = events /\ mexc' = "none")]_vars

\* a single-cell marker row arriving in the middle of a `times` block
C2_Witness ==
    /\ Len(results) >= 3
    /\ LastRow = <<sExhibition>>
    /\ results[Len(results) - 1] = ExampleDataRow
    /\ current_parse = "exhib"
    /\ mpc = "loop"
    /\ Len(events) = 1
    /\ Len(events[1].home) = 1

\* C3 (as stated): every single-cell row starts a new EventResult and the
\* number of EventResults equals the number of single-cell rows consumed.
C3_Original ==
    (mpc # "raised") =>
        /\ Len(events) = NumSingle(results)
        /\ (Len(results) > 0 /\ Len(LastRow) = 1) =>
              (Len(events) > 0 /\ LastEvent(events) =
                 [name |-> LastRow[1], home |-> <<>>, away |-> <<>>])

\* C3 (amended): every row consumed without error appends exactly one
\* EventResult (named by its first cell, with empty entry lists) when it
\* has no marker and is single-cell or is consumed in the `event` state,
\* and appends none otherwise; from the empty initial list, the number of
\* EventResults is the number of such rows.
C3_Amended ==
    [][(RowConsumed /\ mexc' = "none")
       => IF /\ ~Contains(sExhibition, LastRow'[1])
             /\ (Len(LastRow') = 1 \/ current_parse = "event")
          THEN events' = events \o
                 <<[name |-> LastRow'[1], home |-> <<>>, away |-> <<>>]>>
          ELSE Len(events') = Len(events)]_vars

\* the event count differs from the single-cell row count in both ways:
\* a multi-cell header started an event and a single-cell marker did not
C3_Witness ==
    /\ mpc = "returned"
    /\ Len(results) = 4
    /\ Len(results[1]) = 1 /\ ~HasMarker(results[1])
    /\ Len(results[2]) >= 8 /\ IsSentinel(results[2])
    /\ Len(results[3]) >= 8 /\ ~HasMarker(results[3])
    /\ results[4] = <<sExhibition>>
    /\ Len(events) = 2
    /\ NumSingle(results) = 2

\* C4: while no error has occurred, the home and away entry lists of every
\* EventResult have the same length.
C4_PairedEntries ==
    (mexc = "none") =>
        \A i \in 1..Len(events) : Len(events[i].home) = Len(events[i].away)

C4_Witness ==
    /\ mexc = "none"
    /\ mpc = "returned"
    /\ \E i \in 1..Len(events) :
         Len(events[i].home) = 2 /\ Len(events[i].away) = 2

\* C5: time_to_float returns None, raising nothing, for None, for the
\* empty string and for every string containing "dq" in any letter case.
C5_NoTimeIsAbsent ==
    (tpc = "done" /\ (time.none \/ time.s = <<>> \/ HasDq(time.s)))
        => tresult = ReturnedNone

\* Split at the first colon only: <integer minutes>:<float seconds>.
FirstColonForm(s) ==
    /\ \E i \in 1..Len(s) : s[i] = ":"
    /\ LET k == CHOOSE i \in 1..Len(s) :
                  s[i] = ":" /\ \A j \in 1..(i - 1) : s[j] # ":"
       IN  IsInt(SubSeq(s, 1, k - 1)) /\ IsFloat(SubSeq(s, k + 1, Len(s)))

\* C6: for a string that is not a plain number, has no "dq" and is not
\* <integer>:<float> when split at its first colon, time_to_float fails
\* with a format error and returns no value.
C6_MalformedFails ==
    (/\ tpc = "done"
     /\ ~time.none
     /\ ~IsFloat(time.s)
     /\ ~HasDq(time.s)
     /\ ~FirstColonForm(time.s))
        => tresult.kind = "ValueError"

NonBoldRows(perf) == {i \in 1..Len(perf) : ~perf[i].bold}

YearUnmapped(p) ==
    /\ p.nTables >= 1
    /\ p.nInfoTd >= 10
    /\ IsInt(p.year)
    /\ IntVal(p.year) \notin 2020..2025

C8_ExhibitionDiscarded ==
    [][(RowConsumed /\ current_parse = "exhib" /\ Len(LastRow') >= 1)
       => /\ mexc' = "none"
          /\ SubSeq(events', 1, Len(events)) = events
          /\ (Len(LastRow') > 1 /\ ~Contains(sExhibition, LastRow'[1]))
               => (events' = events /\ current_parse' = "exhib")
          /\ (Len(LastRow') = 1 /\ ~Contains(sExhibition, LastRow'[1]))
               => /\ events' = events \o
                        <<[name |-> LastRow'[1], home |-> <<>>, away |-> <<>>]>>
                  /\ current_parse' = "times"]_vars

\* header, marker, a full data row inside the block, then the boundary row
C8_Witness ==
    /\ Len(results) = 4
    /\ results[1] = <<s100Free>>
    /\ HasMarker(results[2])
    /\ results[3] = ExampleDataRow
    /\ results[4] = <<s100Free>>
    /\ current_parse = "times"
    /\ Len(events) = 2
    /\ events[1].home = <<>> /\ events[1].away = <<>>
    /\ events[2].home = <<>> /\ events[2].away = <<>>

\* C9: in the `times` state a row of at least 8 cells with cell[0] and
\* cell[7] empty appends nothing and moves to `event`; the row after it, if
\* it has more than one cell and no marker, appends an EventResult named by
\* its cell[0] with empty lists and moves to `times`.
C9_SentinelThenHeader ==
    [][RowConsumed =>
        /\ (/\ current_parse = "times"
            /\ Len(LastRow') >= 8
            /\ LastRow'[1] = <<>> /\ LastRow'[8] = <<>>)
             => (events' = events /\ current_parse' = "event"
                   /\ mexc' = "none")
        /\ (/\ current_parse = "event"
            /\ Len(results) > 0
            /\ Len(LastRow') > 1
            /\ ~Contains(sExhibition, LastRow'[1]))
             => (/\ events' = events \o
                       <<[name |-> LastRow'[1], home |-> <<>>, away |-> <<>>]>>
                 /\ current_parse' = "times"
                 /\ mexc' = "none")]_vars

\* header, sentinel whose name cells are filled, then a full data row that
\* is taken as the next header
C9_Witness ==
    /\ Len(results) = 3
    /\ results[1] = <<s100Free>>
    /\ results[2] = <<sEmpty, sA, sEmpty, sEmpty, sEmpty, sEmpty, sB, sEmpty>>
    /\ results[3] = ExampleDataRow
    /\ current_parse = "times"
    /\ Len(events) = 2
    /\ events[1].home = <<>>
    /\ events[2] = [name |-> sT1, home |-> <<>>, away |-> <<>>]

\* C10: whenever the parse state is `times`, the event list is non-empty.
C10_TimesHasEvent ==
    (current_parse = "times") => Len(events) > 0

\* a stream whose first row is an exhibition marker reaches `times`
C10_Witness ==
    /\ Len(results) >= 2
    /\ HasMarker(results[1])
    /\ current_parse = "times"
    /\ Len(events) = 1

====
